---- MODULE Spec2Model ----
\* A model of src/promise.go (the sync.RWMutex revision, lines 229-502):
\* promises with their state/value/err/handlers/operations/mutex, and the
\* goroutines that call the package's functions, each with its call stack.
EXTENDS Integers, Sequences, FiniteSets, TLC

\* ---------------------------------------------------------------- bounds
MaxPromises == 10     \* addresses of promises
MaxThreads  == 2      \* goroutines (callers and NewPromise's goroutine)
MaxScript   == 2      \* resolver/rejector calls a task callback makes
\* what the callers do: see the specifications at the end
MaxRoots    == 1      \* promises made by the constructors
MaxRegs     == 2      \* Then/Catch/Finally calls
MaxCalls    == 2      \* public Resolve/Reject calls
MaxAdopts   == 1      \* FulfillHandler calls that return a promise
MaxReenters == 1      \* handler calls that call a method of a promise
MaxLeaks    == 1      \* resolver/rejector calls made outside the task callback

Pid     == 1..MaxPromises
Threads == 1..MaxThreads
NoThread == 0

\* ---------------------------------------------------------------- values
\* interface{} values: nil, a plain value, or a *Promise.
Nil      == [k |-> "nil", n |-> 0]
IntV(n)  == [k |-> "int", n |-> n]
PromV(q) == [k |-> "promise", n |-> q]
\* error values: 0 is the nil error, the others are reasons
NilErr   == 0
\* The code never looks into a value or a reason (but for the *Promise type
\* assertion of line 372), so every place that passes one passes a token that
\* tells where it came from: a constructor passes the address of its promise, a
\* caller its goroutine's number, a task callback the number of the call, and a
\* user's FulfillHandler the successor of what it was given.
Succ(v)  == IF v.k = "int" THEN v.n + 1 ELSE 1

StatePending   == "pending"
StateSettling  == "settling"
StateFulfilled == "fulfilled"
StateRejected  == "rejected"
Unallocated    == "none"
\* State is a string, two words wide: a read that overlaps a write of p.state
\* made without the write lock can see the pointer of one value and the length
\* of the other, a string that equals none of the four constants.
Torn           == "torn"

ErrResolveNotPendingPromise == "cannot resolve promise that is not in pending state"
ErrRejectNotPendingPromise  == "cannot reject promise that is not in pending state"

VARIABLES
  state,       \* Promise.state, or Unallocated
  value,       \* Promise.value
  err,         \* Promise.err
  handlers,    \* Promise.handlers: closures built by registerHandlers
  operations,  \* Promise.operations: closures appended by the handlers
  mutex,       \* Promise.mutex: the goroutine holding the write lock, or NoThread
  origin,      \* which constructor made the promise
  source,      \* for a promise made by registerHandlers: the promise p it was registered on
  stack,       \* per goroutine: its call stack, innermost frame last
  calls,       \* the closures of p.handlers run so far, in order (see Call)
  returns,     \* the callers' public Resolve/Reject calls that returned, in order
  registered,  \* every closure appended to a p.handlers, in order: its newPromise c,
               \* the promise p and p.state at the append
  budget       \* the calls the callers may still make: [roots, regs, calls, adopts, reenters, leaks]

vars == <<state, value, err, handlers, operations, mutex, origin, source,
          stack, calls, returns, registered, budget>>

promiseVars == <<state, value, err, handlers, operations>>

\* ---------------------------------------------------------------- helpers
Allocated(p) == state[p] # Unallocated
\* addresses not yet handed out (an address reserved for a closure's promise has
\* an origin already)
Free         == {p \in Pid : ~Allocated(p) /\ origin[p] = "none"}
\* the next address handed out by the allocator
New          == CHOOSE p \in Free : \A q \in Free : p <= q
Room(k)      == Cardinality(Free) >= k

Top(t)       == stack[t][Len(stack[t])]
Idle(t)      == stack[t] = <<>>
Running(t, f) == ~Idle(t) /\ Top(t).fn = f
Push(t, f)   == [stack EXCEPT ![t] = Append(@, f)]
Pop(t)       == [stack EXCEPT ![t] = SubSeq(@, 1, Len(@) - 1)]
\* replace the innermost frame
Goto(t, f)   == [stack EXCEPT ![t] = Append(SubSeq(@, 1, Len(@) - 1), f)]
\* replace the innermost frame by f and call g from it
GotoPush(t, f, g) == [stack EXCEPT ![t] = Append(Append(SubSeq(@, 1, Len(@) - 1), f), g)]

Frames == UNION {{stack[t][i] : i \in 1..Len(stack[t])} : t \in Threads}

\* A promise a caller holds a pointer to: made by a constructor, or returned by a
\* registerHandlers call that has returned.
Visible(p) ==
  /\ Allocated(p)
  /\ origin[p] # "internal"
  /\ ~\E f \in Frames : f.fn = "registerHandlers" /\ f.np = p

Terminal(p) == state[p] \in {StateFulfilled, StateRejected}

\* p.mutex is a sync.RWMutex. The write lock is held over several steps only by
\* notifyObservers, the read lock only by NewPromise's goroutine while it writes
\* p.state (line 263).
ReadLocked(p) == \E f \in Frames : f.fn = "NewPromise" /\ f.pc = "writing" /\ f.p = p
CanLock(p)    == mutex[p] = NoThread /\ ~ReadLocked(p)
CanRLock(p)   == mutex[p] = NoThread

Roots == {p \in Pid : origin[p] \in {"Pending", "NewPromise", "Resolve", "Reject"}}
\* The constructors touch nothing but the promise they make, so they commute
\* with every other step: the callers make their promises first.
Setup ==
  /\ budget.roots > 0
  /\ Room(1)
  /\ \A t \in Threads : Idle(t)
  /\ \A p \in Pid : origin[p] \notin {"derived", "internal"}
  /\ calls = <<>>
  /\ returns = <<>>

Spend(what) == [budget EXCEPT ![what] = @ - 1]

\* Callers are interchangeable: the next call is made by the idle goroutine of
\* the lowest number.
Caller(t) == Idle(t) /\ \A u \in Threads : Idle(u) => t <= u

InitWith(b) ==
  /\ state      = [p \in Pid |-> Unallocated]
  /\ value      = [p \in Pid |-> Nil]
  /\ err        = [p \in Pid |-> NilErr]
  /\ handlers   = [p \in Pid |-> <<>>]
  /\ operations = [p \in Pid |-> <<>>]
  /\ mutex      = [p \in Pid |-> NoThread]
  /\ origin     = [p \in Pid |-> "none"]
  /\ source     = [p \in Pid |-> 0]
  /\ stack      = [t \in Threads |-> <<>>]
  /\ calls      = <<>>
  /\ returns    = <<>>
  /\ registered = <<>>
  /\ budget     = b


\* ---------------------------------------------------------------- constructors
\* func Pending() *Promise
Pending ==
  /\ Setup
  /\ state'  = [state EXCEPT ![New] = StatePending]
  /\ origin' = [origin EXCEPT ![New] = "Pending"]
  /\ budget' = Spend("roots")
  /\ UNCHANGED <<value, err, handlers, operations, mutex, source, stack, calls,
                 returns, registered>>

\* func Resolve(value interface{}) *Promise
NewResolved ==
    /\ Setup
    /\ state'  = [state EXCEPT ![New] = StateFulfilled]
    /\ value'  = [value EXCEPT ![New] = IntV(New)]
    /\ origin' = [origin EXCEPT ![New] = "Resolve"]
    /\ budget' = Spend("roots")
    /\ UNCHANGED <<err, handlers, operations, mutex, source, stack, calls,
                   returns, registered>>

\* func Reject(reason error) *Promise
NewRejected ==
    /\ Setup
    /\ state'  = [state EXCEPT ![New] = StateRejected]
    /\ err'    = [err EXCEPT ![New] = New]
    /\ origin' = [origin EXCEPT ![New] = "Reject"]
    /\ budget' = Spend("roots")
    /\ UNCHANGED <<value, handlers, operations, mutex, source, stack, calls,
                   returns, registered>>

\* func NewPromise(callback): the promise starts Settling and the callback runs
\* on a goroutine of its own (g).
TaskFrame(p) == [fn |-> "NewPromise", pc |-> "callback", p |-> p, left |-> MaxScript]

\* (a faulty variant: the promise starts Pending)
NewPromisePending(g) ==
  /\ Setup
  /\ Caller(g)
  /\ state'  = [state EXCEPT ![New] = StatePending]
  /\ origin' = [origin EXCEPT ![New] = "NewPromise"]
  /\ stack'  = Push(g, TaskFrame(New))
  /\ budget' = Spend("roots")
  /\ UNCHANGED <<value, err, handlers, operations, mutex, source, calls, returns, registered>>

NewPromise(g) ==
  /\ Setup
  /\ Caller(g)
  /\ state'  = [state EXCEPT ![New] = StateSettling]
  /\ origin' = [origin EXCEPT ![New] = "NewPromise"]
  /\ stack'  = Push(g, TaskFrame(New))
  /\ budget' = Spend("roots")
  /\ UNCHANGED <<value, err, handlers, operations, mutex, source, calls, returns, registered>>

\* ---------------------------------------------------------------- settlement
NotifyFrame(p) == [fn |-> "notifyObservers", pc |-> "lock", p |-> p, i |-> 1]
SettleFrame(fn, p, arg) == [fn |-> fn, pc |-> "lock", p |-> p, arg |-> arg]

\* a caller calls p.Resolve(value)
CallResolve(t) ==
  \E p \in Pid :
    /\ Caller(t)
    /\ Visible(p)
    /\ budget.calls > 0
    /\ stack'  = Push(t, SettleFrame("Resolve", p, IntV(t)))
    /\ budget' = Spend("calls")
    /\ UNCHANGED <<promiseVars, mutex, origin, source, calls, returns, registered>>

\* a caller calls p.Reject(reason)
CallReject(t) ==
  \E p \in Pid :
    /\ Caller(t)
    /\ Visible(p)
    /\ budget.calls > 0
    /\ stack'  = Push(t, SettleFrame("Reject", p, t))
    /\ budget' = Spend("calls")
    /\ UNCHANGED <<promiseVars, mutex, origin, source, calls, returns, registered>>

\* what a returning call leaves with its caller: only a caller's own call (the
\* outermost frame) has its result looked at, the closures discard it (_ =)
Return(fn, p, arg, r) == [fn |-> fn, p |-> p, arg |-> arg, r |-> r]
Returned(t, r) ==
  IF Len(stack[t]) = 1
  THEN Append(returns, Return(Top(t).fn, Top(t).p, Top(t).arg, r))
  ELSE returns

\* (a faulty variant: a state check that refuses only a promise still Settling)
NotPendingOnlySettling(p) == StateSettling = state[p]

\* the state check of Resolve/Reject (lines 315, 334)
NotPending(p) == StatePending # state[p]

\* (a faulty variant: Resolve without the state check of line 315)
ResolveUnchecked(t) ==
  /\ Running(t, "Resolve")
  /\ Top(t).pc = "lock"
  /\ LET f == Top(t) IN
     /\ CanLock(f.p)
     /\ state'  = [state EXCEPT ![f.p] = StateFulfilled]
     /\ value'  = [value EXCEPT ![f.p] = f.arg]
     /\ stack'  = GotoPush(t, [f EXCEPT !.pc = "ret"], NotifyFrame(f.p))
  /\ UNCHANGED <<err, handlers, operations, mutex, origin, source, calls, returns, registered, budget>>

\* func (p *Promise) Resolve(value interface{}) error, lines 313-326
Resolve(t) ==
  /\ Running(t, "Resolve")
  /\ Top(t).pc = "lock"
  /\ LET f == Top(t) IN
     /\ CanLock(f.p)
     /\ IF NotPending(f.p)
        THEN /\ stack'   = Pop(t)
             /\ returns' = Returned(t, ErrResolveNotPendingPromise)
             /\ UNCHANGED <<state, value>>
        ELSE /\ state'  = [state EXCEPT ![f.p] = StateFulfilled]
             /\ value'  = [value EXCEPT ![f.p] = f.arg]
             /\ stack'  = GotoPush(t, [f EXCEPT !.pc = "ret"], NotifyFrame(f.p))
             /\ UNCHANGED returns
  /\ UNCHANGED <<err, handlers, operations, mutex, origin, source, calls, registered, budget>>

\* (a faulty variant: Reject refuses with the error of Resolve)
RejectWithResolveError(t) ==
  /\ Running(t, "Reject")
  /\ Top(t).pc = "lock"
  /\ LET f == Top(t) IN
     /\ CanLock(f.p)
     /\ IF NotPending(f.p)
        THEN /\ stack'   = Pop(t)
             /\ returns' = Returned(t, ErrResolveNotPendingPromise)
             /\ UNCHANGED <<state, err>>
        ELSE /\ state'  = [state EXCEPT ![f.p] = StateRejected]
             /\ err'    = [err EXCEPT ![f.p] = f.arg]
             /\ stack'  = GotoPush(t, [f EXCEPT !.pc = "ret"], NotifyFrame(f.p))
             /\ UNCHANGED returns
  /\ UNCHANGED <<value, handlers, operations, mutex, origin, source, calls, registered, budget>>

\* func (p *Promise) Reject(reason error) error, lines 332-345
Reject(t) ==
  /\ Running(t, "Reject")
  /\ Top(t).pc = "lock"
  /\ LET f == Top(t) IN
     /\ CanLock(f.p)
     /\ IF NotPending(f.p)
        THEN /\ stack'   = Pop(t)
             /\ returns' = Returned(t, ErrRejectNotPendingPromise)
             /\ UNCHANGED <<state, err>>
        ELSE /\ state'  = [state EXCEPT ![f.p] = StateRejected]
             /\ err'    = [err EXCEPT ![f.p] = f.arg]
             /\ stack'  = GotoPush(t, [f EXCEPT !.pc = "ret"], NotifyFrame(f.p))
             /\ UNCHANGED returns
  /\ UNCHANGED <<value, handlers, operations, mutex, origin, source, calls, registered, budget>>

\* return nil (lines 328, 347), after notifyObservers has returned
SettleReturn(t) ==
  /\ ~Idle(t)
  /\ Top(t).fn \in {"Resolve", "Reject"}
  /\ Top(t).pc = "ret"
  /\ stack'   = Pop(t)
  /\ returns' = Returned(t, "nil")
  /\ UNCHANGED <<promiseVars, mutex, origin, source, calls, registered, budget>>

\* the number of the resolver/rejector call the callback is about to make
CallNo(f) == MaxScript - f.left + 1

\* (a faulty variant: no state check at all)
NotSettlingNever(p) == FALSE

\* the state check of resolve/reject (lines 484, 496)
NotSettling(p) == StateSettling # state[p]

\* (a faulty variant: resolve without the state check of line 484)
resolveUnchecked(t) ==
  /\ Running(t, "NewPromise")
  /\ Top(t).pc = "callback"
  /\ Top(t).left > 0
  /\ LET f == Top(t) IN
     /\ CanLock(f.p)
     /\ state' = [state EXCEPT ![f.p] = StateFulfilled]
     /\ value' = [value EXCEPT ![f.p] = IntV(CallNo(f))]
     /\ stack' = Goto(t, [f EXCEPT !.left = @ - 1])
  /\ UNCHANGED <<err, handlers, operations, mutex, origin, source, calls, returns, registered, budget>>

\* func (p *Promise) resolve(value interface{}), called by the task callback
resolve(t) ==
  /\ Running(t, "NewPromise")
  /\ Top(t).pc = "callback"
  /\ Top(t).left > 0
  /\ LET f == Top(t) IN
     /\ CanLock(f.p)
     /\ IF NotSettling(f.p)
        THEN UNCHANGED <<state, value>>
        ELSE /\ state' = [state EXCEPT ![f.p] = StateFulfilled]
             /\ value' = [value EXCEPT ![f.p] = IntV(CallNo(f))]
     /\ stack' = Goto(t, [f EXCEPT !.left = @ - 1])
  /\ UNCHANGED <<err, handlers, operations, mutex, origin, source, calls, returns, registered, budget>>

\* (a faulty variant: reject without the state check of line 496)
rejectUnchecked(t) ==
  /\ Running(t, "NewPromise")
  /\ Top(t).pc = "callback"
  /\ Top(t).left > 0
  /\ LET f == Top(t) IN
     /\ CanLock(f.p)
     /\ state' = [state EXCEPT ![f.p] = StateRejected]
     /\ err'   = [err EXCEPT ![f.p] = CallNo(f)]
     /\ stack' = Goto(t, [f EXCEPT !.left = @ - 1])
  /\ UNCHANGED <<value, handlers, operations, mutex, origin, source, calls, returns, registered, budget>>

\* func (p *Promise) reject(reason error), called by the task callback
reject(t) ==
  /\ Running(t, "NewPromise")
  /\ Top(t).pc = "callback"
  /\ Top(t).left > 0
  /\ LET f == Top(t) IN
     /\ CanLock(f.p)
     /\ IF NotSettling(f.p)
        THEN UNCHANGED <<state, err>>
        ELSE /\ state' = [state EXCEPT ![f.p] = StateRejected]
             /\ err'   = [err EXCEPT ![f.p] = CallNo(f)]
     /\ stack' = Goto(t, [f EXCEPT !.left = @ - 1])
  /\ UNCHANGED <<value, handlers, operations, mutex, origin, source, calls, returns, registered, budget>>

\* The callback may hand resolve and reject to another goroutine, which calls
\* them whenever it likes: the same functions (lines 480-502), not called from
\* the callback.
\* (a faulty variant: resolve without the state check of line 484)
resolveLateUnchecked(t) ==
  /\ Caller(t)
  /\ budget.leaks > 0
  /\ \E p \in Pid :
       /\ origin[p] = "NewPromise"
       /\ CanLock(p)
       /\ state' = [state EXCEPT ![p] = StateFulfilled]
       /\ value' = [value EXCEPT ![p] = IntV(t)]
  /\ budget' = Spend("leaks")
  /\ UNCHANGED <<err, handlers, operations, mutex, origin, source, stack, calls, returns, registered>>

resolveLate(t) ==
  /\ Caller(t)
  /\ budget.leaks > 0
  /\ \E p \in Pid :
       /\ origin[p] = "NewPromise"
       /\ CanLock(p)
       /\ IF NotSettling(p)
          THEN UNCHANGED <<state, value>>
          ELSE /\ state' = [state EXCEPT ![p] = StateFulfilled]
               /\ value' = [value EXCEPT ![p] = IntV(t)]
  /\ budget' = Spend("leaks")
  /\ UNCHANGED <<err, handlers, operations, mutex, origin, source, stack, calls, returns, registered>>

rejectLate(t) ==
  /\ Caller(t)
  /\ budget.leaks > 0
  /\ \E p \in Pid :
       /\ origin[p] = "NewPromise"
       /\ CanLock(p)
       /\ IF NotSettling(p)
          THEN UNCHANGED <<state, err>>
          ELSE /\ state' = [state EXCEPT ![p] = StateRejected]
               /\ err'   = [err EXCEPT ![p] = t]
  /\ budget' = Spend("leaks")
  /\ UNCHANGED <<value, handlers, operations, mutex, origin, source, stack, calls, returns, registered>>

\* (a faulty variant: the goroutine notifies whatever the state is)
TaskDoneNotifies(t) ==
  /\ Running(t, "NewPromise")
  /\ Top(t).pc = "callback"
  /\ CanRLock(Top(t).p)
  /\ stack' = Goto(t, NotifyFrame(Top(t).p))
  /\ UNCHANGED <<state, value, err, handlers, operations, mutex, origin, source, calls, returns, registered, budget>>

\* NewPromise's goroutine once the callback has returned, lines 260-272: under
\* the read lock, a promise still Settling is written Pending (the write begins
\* here and ends in TaskWritten), any other is notified.
TaskDone(t) ==
  /\ Running(t, "NewPromise")
  /\ Top(t).pc = "callback"
  /\ LET f == Top(t) IN
     /\ CanRLock(f.p)
     /\ IF StateSettling = state[f.p]
        THEN /\ state' = [state EXCEPT ![f.p] = Torn]
             /\ stack' = Goto(t, [f EXCEPT !.pc = "writing"])
        ELSE /\ stack' = Goto(t, NotifyFrame(f.p))
             /\ UNCHANGED state
  /\ UNCHANGED <<value, err, handlers, operations, mutex, origin, source, calls, returns, registered, budget>>

\* p.state = StatePending is written; p.mutex.RUnlock(); return, lines 263-267
TaskWritten(t) ==
  /\ Running(t, "NewPromise")
  /\ Top(t).pc = "writing"
  /\ state' = [state EXCEPT ![Top(t).p] = StatePending]
  /\ stack' = Pop(t)
  /\ UNCHANGED <<value, err, handlers, operations, mutex, origin, source, calls, returns, registered, budget>>

\* ---------------------------------------------------------------- registration
\* the closures registerHandlers stores in p.handlers: kind is which of the three
\* handlers it wraps, np the newPromise it captured; adopt # 0 marks the two
\* closures of lines 376-384, whose handler settles the promise adopt
Handler(kind, np, adopt) == [kind |-> kind, np |-> np, adopt |-> adopt]
RegisterFrame(p, kind, np, adopt) ==
  [fn |-> "registerHandlers", pc |-> "append", p |-> p, kind |-> kind, np |-> np, adopt |-> adopt]

\* newPromise := Promise{state: StateSettling}, line 355
Register(t, p, kind) ==
  /\ Caller(t)
  /\ Visible(p)
  /\ budget.regs > 0
  /\ Room(1)
  /\ state'  = [state EXCEPT ![New] = StateSettling]
  /\ origin' = [origin EXCEPT ![New] = "derived"]
  /\ source' = [source EXCEPT ![New] = p]
  /\ stack'  = Push(t, RegisterFrame(p, kind, New, 0))
  /\ budget' = Spend("regs")
  /\ UNCHANGED <<value, err, handlers, operations, mutex, calls, returns, registered>>

\* func (p *Promise) Then(handler FulfillHandler) Promiser
Then(t)    == \E p \in Pid : Register(t, p, "then")
\* func (p *Promise) Catch(handler RejectHandler) Promiser
Catch(t)   == \E p \in Pid : Register(t, p, "catch")
\* func (p *Promise) Finally(handler FinallyHandler) Promiser
Finally(t) == \E p \in Pid : Register(t, p, "finally")

\* p.handlers = append(p.handlers, handler) under p.mutex, lines 402-404, 428-430, 448-450
registerAppend(t) ==
  /\ Running(t, "registerHandlers")
  /\ Top(t).pc = "append"
  /\ LET f == Top(t) IN
     /\ CanLock(f.p)
     /\ handlers'   = [handlers EXCEPT ![f.p] = Append(@, Handler(f.kind, f.np, f.adopt))]
     /\ registered' = Append(registered, [c |-> f.np, p |-> f.p, state |-> state[f.p]])
     /\ stack'      = Goto(t, [f EXCEPT !.pc = "check"])
  /\ UNCHANGED <<state, value, err, operations, mutex, origin, source, calls, returns, budget>>

\* line 454
shouldCallHandlersImmediately(p) == StatePending # state[p] /\ StateSettling # state[p]

\* lines 453-461: read the state under the read lock, notify if it is terminal
registerCheck(t) ==
  /\ Running(t, "registerHandlers")
  /\ Top(t).pc = "check"
  /\ LET f == Top(t) IN
     /\ CanRLock(f.p)
     /\ stack' = IF shouldCallHandlersImmediately(f.p)
                 THEN GotoPush(t, [f EXCEPT !.pc = "ret"], NotifyFrame(f.p))
                 ELSE Pop(t)
  /\ UNCHANGED <<promiseVars, mutex, origin, source, calls, returns, registered, budget>>

\* return &newPromise, line 461, after notifyObservers has returned
registerReturn(t) ==
  /\ Running(t, "registerHandlers")
  /\ Top(t).pc = "ret"
  /\ stack' = Pop(t)
  /\ UNCHANGED <<promiseVars, mutex, origin, source, calls, returns, registered, budget>>

\* ---------------------------------------------------------------- notification
\* the closures the handlers append to p.operations
Operation(op, np, res, e, tp, cp) ==
  [op |-> op, np |-> np, res |-> res, err |-> e, tp |-> tp, cp |-> cp]
\* a run of the closure that captured newPromise c: whether it called the
\* handler it wraps, with which argument and result, from which call of the
\* goroutine's (its outermost frame), p.state at the run and, for a result that
\* is a promise, that promise's state at the return
Call(t, c, kind, called, arg, res, e) ==
  [c |-> c, kind |-> kind, called |-> called, arg |-> arg, res |-> res, err |-> e,
   via |-> stack[t][1].fn, state |-> state[Top(t).p],
   inner |-> IF res.k = "promise" THEN state[res.n] ELSE Unallocated]

\* p.mutex.Lock(), line 465
notifyLock(t) ==
  /\ Running(t, "notifyObservers")
  /\ Top(t).pc = "lock"
  /\ CanLock(Top(t).p)
  /\ mutex' = [mutex EXCEPT ![Top(t).p] = t]
  /\ stack' = Goto(t, [Top(t) EXCEPT !.pc = "handlers"])
  /\ UNCHANGED <<promiseVars, origin, source, calls, returns, registered, budget>>

\* what a user's FulfillHandler may return: a plain value, an error (with a nil
\* result or with a value), or a promise the user holds
Second == CHOOSE p \in Free \ {New} : \A q \in Free \ {New} : p <= q
ThenOutcomes(arg) ==
  {[res |-> IntV(Succ(arg)), err |-> NilErr]} \cup
  {[res |-> Nil, err |-> Succ(arg)]} \cup
  {[res |-> IntV(Succ(arg)), err |-> Succ(arg)]} \cup
  {[res |-> PromV(q), err |-> NilErr] : q \in {q \in Pid : Visible(q) /\ budget.adopts > 0 /\ Room(2)}}

AppendOp(p, o) == [operations EXCEPT ![p] = Append(@, o)]
\* (a faulty variant: after a closure the pass goes on with the operations)
NextHandlerOperations(t) == Goto(t, [Top(t) EXCEPT !.pc = "operations", !.i = 1])
\* the next iteration of the handlers loop, line 468
NextHandler(t) == Goto(t, [Top(t) EXCEPT !.i = @ + 1])

\* the fulfill closure, lines 360-400
fulfillHandler(t, p, h) ==
  IF StateRejected = state[p]
  THEN /\ operations' = AppendOp(p, Operation("rejectErr", h.np, Nil, NilErr, 0, 0))
       /\ calls' = Append(calls, Call(t, h.np, "then", FALSE, Nil, Nil, NilErr))
       /\ stack' = NextHandler(t)
       /\ UNCHANGED <<origin, budget>>
  ELSE IF h.adopt # 0
  THEN \* lines 376-380: the handler is newPromise.Resolve(value); return value, nil
       /\ calls' = Append(calls, Call(t, h.np, "then", TRUE, value[p], value[p], NilErr))
       /\ stack' = GotoPush(t, [Top(t) EXCEPT !.pc = "called"],
                            SettleFrame("Resolve", h.adopt, value[p]))
       /\ UNCHANGED <<operations, origin, budget>>
  ELSE \E out \in ThenOutcomes(value[p]) :
       /\ calls' = Append(calls, Call(t, h.np, "then", TRUE, value[p], out.res, out.err))
       /\ stack' = NextHandler(t)
       /\ IF out.err # NilErr
          THEN /\ operations' = AppendOp(p, Operation("reject", h.np, Nil, out.err, 0, 0))
               /\ UNCHANGED <<origin, budget>>
          ELSE IF out.res.k = "promise"
          THEN /\ operations' = AppendOp(p, Operation("adopt", h.np, out.res, NilErr, New, Second))
               /\ origin' = [origin EXCEPT ![New] = "internal", ![Second] = "internal"]
               /\ budget' = Spend("adopts")
          ELSE /\ operations' = AppendOp(p, Operation("resolve", h.np, out.res, NilErr, 0, 0))
               /\ UNCHANGED <<origin, budget>>

\* the reject closure, lines 408-426
rejectHandler(t, p, h) ==
  IF StateFulfilled = state[p]
  THEN /\ operations' = AppendOp(p, Operation("resolveValue", h.np, Nil, NilErr, 0, 0))
       /\ calls' = Append(calls, Call(t, h.np, "catch", FALSE, NilErr, Nil, NilErr))
       /\ stack' = NextHandler(t)
       /\ UNCHANGED <<origin, budget>>
  ELSE IF h.adopt # 0
  THEN \* lines 382-384: the handler is newPromise.Reject(reason)
       /\ calls' = Append(calls, Call(t, h.np, "catch", TRUE, err[p], Nil, NilErr))
       /\ stack' = GotoPush(t, [Top(t) EXCEPT !.pc = "called"],
                            SettleFrame("Reject", h.adopt, err[p]))
       /\ UNCHANGED <<operations, origin, budget>>
  ELSE /\ calls' = Append(calls, Call(t, h.np, "catch", TRUE, err[p], Nil, NilErr))
       /\ operations' = AppendOp(p, Operation("resolveNil", h.np, Nil, NilErr, 0, 0))
       /\ stack' = NextHandler(t)
       /\ UNCHANGED <<origin, budget>>

\* the finally closure, lines 434-446
finallyHandler(t, p, h) ==
  /\ calls' = Append(calls, Call(t, h.np, "finally", TRUE, Nil, Nil, NilErr))
  /\ operations' = AppendOp(p, Operation("finally", h.np, Nil, NilErr, 0, 0))
  /\ stack' = NextHandler(t)
  /\ UNCHANGED <<origin, budget>>

\* for _, handler := range p.handlers { handler() }, lines 468-470
notifyHandler(t) ==
  /\ Running(t, "notifyObservers")
  /\ Top(t).pc = "handlers"
  /\ Top(t).i <= Len(handlers[Top(t).p])
  /\ LET p == Top(t).p
         h == handlers[p][Top(t).i]
     IN  CASE h.kind = "then"    -> fulfillHandler(t, p, h)
           [] h.kind = "catch"   -> rejectHandler(t, p, h)
           [] h.kind = "finally" -> finallyHandler(t, p, h)
  /\ UNCHANGED <<state, value, err, handlers, mutex, source, returns, registered>>

\* the closure h of p.handlers calls the handler its caller passed (lines 371,
\* 419, 435)
HandlerApplies(p, h) ==
  /\ h.adopt = 0
  /\ CASE h.kind = "then"    -> StateRejected # state[p]
       [] h.kind = "catch"   -> StateFulfilled # state[p]
       [] h.kind = "finally" -> TRUE

\* a handler that, while running, registers a continuation on the promise
\* being notified: its body starts with p.Then(..), p.Catch(..) or p.Finally(..)
handlerRegisters(t) ==
  /\ Running(t, "notifyObservers")
  /\ Top(t).pc = "handlers"
  /\ Top(t).i <= Len(handlers[Top(t).p])
  /\ HandlerApplies(Top(t).p, handlers[Top(t).p][Top(t).i])
  /\ budget.reenters > 0
  /\ Room(1)
  /\ \E kind \in {"then", "catch", "finally"} :
       stack' = Push(t, RegisterFrame(Top(t).p, kind, New, 0))
  /\ state'  = [state EXCEPT ![New] = StateSettling]
  /\ origin' = [origin EXCEPT ![New] = "derived"]
  /\ source' = [source EXCEPT ![New] = Top(t).p]
  /\ budget' = Spend("reenters")
  /\ UNCHANGED <<value, err, handlers, operations, mutex, calls, returns, registered>>

\* a handler that, while running, settles another promise: its body starts
\* with q.Resolve(value)
handlerSettles(t) ==
  /\ Running(t, "notifyObservers")
  /\ Top(t).pc = "handlers"
  /\ Top(t).i <= Len(handlers[Top(t).p])
  /\ HandlerApplies(Top(t).p, handlers[Top(t).p][Top(t).i])
  /\ budget.reenters > 0
  /\ \E q \in Pid \ {Top(t).p} :
       /\ Visible(q)
       /\ stack' = Push(t, SettleFrame("Resolve", q, IntV(t)))
  /\ budget' = Spend("reenters")
  /\ UNCHANGED <<promiseVars, mutex, origin, source, calls, returns, registered>>

\* one of the closures of lines 376-384 has returned from its handler: the
\* fulfill closure goes on with (value, nil), the reject closure with line 421
notifyCalled(t) ==
  /\ Running(t, "notifyObservers")
  /\ Top(t).pc = "called"
  /\ LET p == Top(t).p
         h == handlers[p][Top(t).i]
     IN  /\ operations' =
              IF h.kind = "then"
              THEN AppendOp(p, Operation("resolve", h.np, value[p], NilErr, 0, 0))
              ELSE AppendOp(p, Operation("resolveNil", h.np, Nil, NilErr, 0, 0))
         /\ stack' = Goto(t, [Top(t) EXCEPT !.pc = "handlers", !.i = @ + 1])
  /\ UNCHANGED <<state, value, err, handlers, mutex, origin, source, calls, returns, registered, budget>>

\* (a faulty variant: the handlers loop ends after the first handler)
notifyHandlersDoneAfterFirst(t) ==
  /\ Running(t, "notifyObservers")
  /\ Top(t).pc = "handlers"
  /\ Top(t).i > 1 \/ Top(t).i > Len(handlers[Top(t).p])
  /\ stack' = Goto(t, [Top(t) EXCEPT !.pc = "operations", !.i = 1])
  /\ UNCHANGED <<promiseVars, mutex, origin, source, calls, returns, registered, budget>>

\* the handlers loop is over: go on with the operations loop, line 472
notifyHandlersDone(t) ==
  /\ Running(t, "notifyObservers")
  /\ Top(t).pc = "handlers"
  /\ Top(t).i > Len(handlers[Top(t).p])
  /\ stack' = Goto(t, [Top(t) EXCEPT !.pc = "operations", !.i = 1])
  /\ UNCHANGED <<promiseVars, mutex, origin, source, calls, returns, registered, budget>>

\* for _, operation := range p.operations { operation() }, lines 472-474. Every
\* operation begins with newPromise.state = StatePending, written without
\* newPromise's lock: the write begins here and ends in notifyWritten.
notifyOperation(t) ==
  /\ Running(t, "notifyObservers")
  /\ Top(t).pc = "operations"
  /\ Top(t).i <= Len(operations[Top(t).p])
  /\ state' = [state EXCEPT ![operations[Top(t).p][Top(t).i].np] = Torn]
  /\ stack' = Goto(t, [Top(t) EXCEPT !.pc = "writing"])
  /\ UNCHANGED <<value, err, handlers, operations, mutex, origin, source, calls, returns, registered, budget>>

\* the call an operation closure makes after newPromise.state = StatePending
OperationCall(p, o) ==
  CASE o.op = "rejectErr"    -> SettleFrame("Reject", o.np, err[p])           \* line 365
    [] o.op = "resolve"      -> SettleFrame("Resolve", o.np, o.res)           \* line 390
    [] o.op = "reject"       -> SettleFrame("Reject", o.np, o.err)            \* line 397
    [] o.op = "resolveValue" -> SettleFrame("Resolve", o.np, value[p])        \* line 413
    [] o.op = "resolveNil"   -> SettleFrame("Resolve", o.np, Nil)             \* line 424
    [] o.op = "finally"      -> IF StateFulfilled = state[p]                  \* lines 440-444
                                THEN SettleFrame("Resolve", o.np, value[p])
                                ELSE SettleFrame("Reject", o.np, err[p])
    [] o.op = "adopt"        -> RegisterFrame(o.res.n, "then", o.tp, o.np)    \* line 376

\* newPromise.state = StatePending is written, and the operation makes its call
notifyWritten(t) ==
  /\ Running(t, "notifyObservers")
  /\ Top(t).pc = "writing"
  /\ LET p == Top(t).p
         o == operations[p][Top(t).i]
     IN  IF o.op = "adopt"
         THEN /\ state'  = [state EXCEPT ![o.np] = StatePending, ![o.tp] = StateSettling]
              /\ source' = [source EXCEPT ![o.tp] = o.res.n]
              /\ stack'  = GotoPush(t, [Top(t) EXCEPT !.pc = "adopted"], OperationCall(p, o))
         ELSE /\ state'  = [state EXCEPT ![o.np] = StatePending]
              /\ stack'  = GotoPush(t, [Top(t) EXCEPT !.pc = "operations", !.i = @ + 1],
                                    OperationCall(p, o))
              /\ UNCHANGED source
  /\ UNCHANGED <<value, err, handlers, operations, mutex, origin, calls, returns, registered, budget>>

\* promiseResult.Catch(...), lines 382-384
notifyAdopted(t) ==
  /\ Running(t, "notifyObservers")
  /\ Top(t).pc = "adopted"
  /\ LET p == Top(t).p
         o == operations[p][Top(t).i]
     IN  /\ state'  = [state EXCEPT ![o.cp] = StateSettling]
         /\ source' = [source EXCEPT ![o.cp] = o.res.n]
         /\ stack'  = GotoPush(t, [Top(t) EXCEPT !.pc = "operations", !.i = @ + 1],
                               RegisterFrame(o.res.n, "catch", o.cp, o.np))
  /\ UNCHANGED <<value, err, handlers, operations, mutex, origin, calls, returns, registered, budget>>

\* (a faulty variant: p.handlers is not reset)
notifyUnlockKeepsHandlers(t) ==
  /\ Running(t, "notifyObservers")
  /\ Top(t).pc = "operations"
  /\ Top(t).i > Len(operations[Top(t).p])
  /\ operations' = [operations EXCEPT ![Top(t).p] = <<>>]
  /\ mutex'      = [mutex EXCEPT ![Top(t).p] = NoThread]
  /\ stack'      = Pop(t)
  /\ UNCHANGED <<state, value, err, handlers, origin, source, calls, returns, registered, budget>>

\* p.handlers = nil; p.operations = nil; the deferred p.mutex.Unlock(), lines 476-478
notifyUnlock(t) ==
  /\ Running(t, "notifyObservers")
  /\ Top(t).pc = "operations"
  /\ Top(t).i > Len(operations[Top(t).p])
  /\ handlers'   = [handlers EXCEPT ![Top(t).p] = <<>>]
  /\ operations' = [operations EXCEPT ![Top(t).p] = <<>>]
  /\ mutex'      = [mutex EXCEPT ![Top(t).p] = NoThread]
  /\ stack'      = Pop(t)
  /\ UNCHANGED <<state, value, err, origin, source, calls, returns, registered, budget>>

\* func (p *Promise) notifyObservers()
notifyObservers(t) ==
  \/ notifyLock(t)
  \/ notifyHandler(t)
  \/ notifyHandlersDone(t)
  \/ notifyOperation(t)
  \/ notifyWritten(t)
  \/ notifyUnlock(t)

\* the closures of lines 373-385, run for a FulfillHandler that returned a promise
adoption(t) ==
  \/ notifyCalled(t)
  \/ notifyAdopted(t)

\* the calls a handler makes on promises while the pass runs it
reentry(t) ==
  \/ handlerRegisters(t)
  \/ handlerSettles(t)

\* func (p *Promise) registerHandlers(...)
registerHandlers(t) ==
  \/ registerAppend(t)
  \/ registerCheck(t)
  \/ registerReturn(t)

\* ---------------------------------------------------------------- specifications
Construct ==
  \/ Pending
  \/ NewResolved
  \/ NewRejected
  \/ \E g \in Threads : NewPromise(g)

Step(t) ==
  \/ resolve(t)
  \/ reject(t)
  \/ TaskDone(t)
  \/ TaskWritten(t)
  \/ CallResolve(t)
  \/ CallReject(t)
  \/ Resolve(t)
  \/ Reject(t)
  \/ SettleReturn(t)
  \/ Then(t)
  \/ Catch(t)
  \/ Finally(t)
  \/ registerHandlers(t)
  \/ notifyObservers(t)

Next == Construct \/ \E t \in Threads : Step(t)

\* One promise made by a constructor, with the callers registering MaxRegs
\* continuations on it and on the promises derived from it, and settling with
\* one public call.
Init == InitWith([roots |-> MaxRoots, regs |-> MaxRegs, calls |-> MaxCalls - 1, adopts |-> 0, reenters |-> 0, leaks |-> 0])
Spec == Init /\ [][Next]_vars

\* The same with one continuation less and one public Resolve/Reject more.
InitSettle == InitWith([roots |-> MaxRoots, regs |-> MaxRegs - 1, calls |-> MaxCalls, adopts |-> 0, reenters |-> 0, leaks |-> 0])
SpecSettle == InitSettle /\ [][Next]_vars

\* Two promises made by constructors, one continuation whose FulfillHandler may
\* return a promise, one public call.
NextChain == Next \/ \E t \in Threads : adoption(t)
InitChain == InitWith([roots |-> MaxRoots + 1, regs |-> MaxRegs - 1, calls |-> MaxCalls - 1,
                       adopts |-> MaxAdopts, reenters |-> 0, leaks |-> 0])
SpecChain == InitChain /\ [][NextChain]_vars

\* One promise made by a constructor, MaxRegs continuations, one public call,
\* and a FulfillHandler that may return a promise. A goroutine that can take a
\* step of the package's code eventually takes one (the Go scheduler preempts);
\* nothing makes a caller make a further call.
Run(t) ==
  \/ resolve(t)
  \/ reject(t)
  \/ TaskDone(t)
  \/ TaskWritten(t)
  \/ Resolve(t)
  \/ Reject(t)
  \/ SettleReturn(t)
  \/ registerHandlers(t)
  \/ notifyObservers(t)
  \/ adoption(t)
InitFair == InitWith([roots |-> MaxRoots, regs |-> MaxRegs, calls |-> MaxCalls - 1,
                      adopts |-> MaxAdopts, reenters |-> 0, leaks |-> 0])
SpecFair == InitFair /\ [][NextChain]_vars /\ \A t \in Threads : WF_vars(Run(t))

\* Two promises made by constructors, one continuation, one settling call, and
\* one handler that calls back into the package while it runs.
NextReenter == Next \/ \E t \in Threads : reentry(t)
InitReenter == InitWith([roots |-> MaxRoots + 1, regs |-> MaxRegs - 1, calls |-> MaxCalls - 1,
                         adopts |-> 0, reenters |-> MaxReenters, leaks |-> 0])
SpecReenter == InitReenter /\ [][NextReenter]_vars

\* A promise with two derived promises: the state after
\*   p := NewPromise(callback); d1 := p.Then/Catch/Finally(..); d2 := p.Finally(..)
\* with the callback's goroutine about to run, and the callers going on with
\* one more registration and one settling call.
Kinds == {"then", "catch", "finally"}
InitTree ==
  /\ \E k1 \in Kinds :
       handlers = [p \in Pid |-> IF p = 1 THEN <<Handler(k1, 2, 0), Handler("finally", 3, 0)>> ELSE <<>>]
  /\ state      = [p \in Pid |-> IF p \in 1..3 THEN StateSettling ELSE Unallocated]
  /\ value      = [p \in Pid |-> Nil]
  /\ err        = [p \in Pid |-> NilErr]
  /\ operations = [p \in Pid |-> <<>>]
  /\ mutex      = [p \in Pid |-> NoThread]
  /\ origin     = [p \in Pid |-> IF p = 1 THEN "NewPromise" ELSE IF p \in 2..3 THEN "derived" ELSE "none"]
  /\ source     = [p \in Pid |-> IF p \in 2..3 THEN 1 ELSE 0]
  /\ stack      = [t \in Threads |-> IF t = 1 THEN <<TaskFrame(1)>> ELSE <<>>]
  /\ calls      = <<>>
  /\ returns    = <<>>
  /\ registered = <<[c |-> 2, p |-> 1, state |-> StateSettling], [c |-> 3, p |-> 1, state |-> StateSettling]>>
  /\ budget     = [roots |-> 0, regs |-> MaxRegs - 1, calls |-> MaxCalls - 1, adopts |-> 0, reenters |-> 0, leaks |-> 0]
NextTree == \E t \in Threads : Step(t)
SpecTree == InitTree /\ [][NextTree]_vars

\* Two derived promises that adopted two promises not yet settled: the state
\* after
\*   qa := Pending(); p := Resolve(2); qb := NewPromise(callback)
\*   d1 := p.Then(func(..) { return qa, nil }); d2 := p.Then(func(..) { return qb, nil })
\* with the callback's goroutine about to run, and the callers going on with
\* one registration and one settling call.
InitAdopted ==
  /\ state      = [p \in Pid |-> CASE p \in {1, 4, 7}       -> StatePending
                                   [] p \in {3, 5, 6, 8, 9} -> StateSettling
                                   [] p = 2                 -> StateFulfilled
                                   [] OTHER                 -> Unallocated]
  /\ value      = [p \in Pid |-> IF p = 2 THEN IntV(2) ELSE Nil]
  /\ err        = [p \in Pid |-> NilErr]
  /\ handlers   = [p \in Pid |-> CASE p = 1 -> <<Handler("then", 5, 4), Handler("catch", 6, 4)>>
                                   [] p = 3 -> <<Handler("then", 8, 7), Handler("catch", 9, 7)>>
                                   [] OTHER -> <<>>]
  /\ operations = [p \in Pid |-> <<>>]
  /\ mutex      = [p \in Pid |-> NoThread]
  /\ origin     = [p \in Pid |-> CASE p = 1 -> "Pending"
                                   [] p = 2 -> "Resolve"
                                   [] p = 3 -> "NewPromise"
                                   [] p \in {4, 7} -> "derived"
                                   [] p \in {5, 6, 8, 9} -> "internal"
                                   [] OTHER -> "none"]
  /\ source     = [p \in Pid |-> CASE p \in {4, 7} -> 2
                                   [] p \in {5, 6} -> 1
                                   [] p \in {8, 9} -> 3
                                   [] OTHER -> 0]
  /\ stack      = [t \in Threads |-> IF t = 1 THEN <<TaskFrame(3)>> ELSE <<>>]
  /\ calls      = <<[c |-> 4, kind |-> "then", called |-> TRUE, arg |-> IntV(2), res |-> PromV(1),
                      err |-> NilErr, via |-> "registerHandlers", state |-> StateFulfilled,
                      inner |-> StatePending],
                     [c |-> 7, kind |-> "then", called |-> TRUE, arg |-> IntV(2), res |-> PromV(3),
                      err |-> NilErr, via |-> "registerHandlers", state |-> StateFulfilled,
                      inner |-> StateSettling]>>
  /\ returns    = <<>>
  /\ registered = <<[c |-> 4, p |-> 2, state |-> StateFulfilled],
                     [c |-> 5, p |-> 1, state |-> StatePending],
                     [c |-> 6, p |-> 1, state |-> StatePending],
                     [c |-> 7, p |-> 2, state |-> StateFulfilled],
                     [c |-> 8, p |-> 3, state |-> StateSettling],
                     [c |-> 9, p |-> 3, state |-> StateSettling]>>
  /\ budget     = [roots |-> 0, regs |-> MaxRegs - 1, calls |-> MaxCalls - 1, adopts |-> 0, reenters |-> 0, leaks |-> 0]
NextAdopted == \E t \in Threads : Step(t) \/ notifyCalled(t)
SpecAdopted == InitAdopted /\ [][NextAdopted]_vars

\* A chain of two continuations on a promise to be settled by a caller: the
\* state after
\*   p := Pending(); d := p.Then/Catch/Finally(..); e := d.Then/Catch/Finally(..)
\* with the callers going on with two settling calls.
InitQueue ==
  /\ \E k1, k2 \in Kinds :
       handlers = [p \in Pid |-> CASE p = 1 -> <<Handler(k1, 2, 0)>>
                                   [] p = 2 -> <<Handler(k2, 3, 0)>>
                                   [] OTHER -> <<>>]
  /\ state      = [p \in Pid |-> CASE p = 1 -> StatePending
                                   [] p \in 2..3 -> StateSettling
                                   [] OTHER -> Unallocated]
  /\ value      = [p \in Pid |-> Nil]
  /\ err        = [p \in Pid |-> NilErr]
  /\ operations = [p \in Pid |-> <<>>]
  /\ mutex      = [p \in Pid |-> NoThread]
  /\ origin     = [p \in Pid |-> CASE p = 1 -> "Pending"
                                   [] p \in 2..3 -> "derived"
                                   [] OTHER -> "none"]
  /\ source     = [p \in Pid |-> CASE p = 2 -> 1
                                   [] p = 3 -> 2
                                   [] OTHER -> 0]
  /\ stack      = [t \in Threads |-> <<>>]
  /\ calls      = <<>>
  /\ returns    = <<>>
  /\ registered = <<[c |-> 2, p |-> 1, state |-> StatePending],
                     [c |-> 3, p |-> 2, state |-> StateSettling]>>
  /\ budget     = [roots |-> 0, regs |-> 0, calls |-> MaxCalls, adopts |-> 0, reenters |-> 0, leaks |-> 0]
NextQueue ==
  \E t \in Threads :
    \/ CallResolve(t)
    \/ CallReject(t)
    \/ Resolve(t)
    \/ Reject(t)
    \/ SettleReturn(t)
    \/ notifyObservers(t)
SpecQueue == InitQueue /\ [][NextQueue]_vars

\* One promise made by a constructor, one continuation, one settling call, and
\* one call of a resolver or rejector from outside the task callback.
NextLeak == Next \/ \E t \in Threads : resolveLate(t) \/ rejectLate(t)
InitLeak == InitWith([roots |-> MaxRoots, regs |-> MaxRegs - 1, calls |-> MaxCalls - 1,
                      adopts |-> 0, reenters |-> 0, leaks |-> MaxLeaks])
SpecLeak == InitLeak /\ [][NextLeak]_vars

\* ---------------------------------------------------------------- properties
\* the public Resolve/Reject calls on p that returned r
ReturnsOf(p, r) == {i \in DOMAIN returns : returns[i].p = p /\ returns[i].r = r}
NotPendingErrors == {ErrResolveNotPendingPromise, ErrRejectNotPendingPromise}
\* the runs of the closure that captured newPromise c
RunsOf(c) == {i \in DOMAIN calls : calls[i].c = c}

\* C1: once a promise is Fulfilled or Rejected, no step of any goroutine (public
\* Resolve/Reject, the task's resolve/reject, a registration, a notification)
\* changes its state, its value or its reason.
C1_SettledNeverChanges ==
  [][\A p \in Pid : Terminal(p) =>
        /\ state'[p] = state[p]
        /\ value'[p] = value[p]
        /\ err'[p]   = err[p]]_vars

\* a settled promise whose continuation has run and on which a later public
\* Resolve/Reject has been refused
C1_Witness ==
  \E i \in DOMAIN returns, j \in DOMAIN calls :
    /\ returns[i].r \in NotPendingErrors
    /\ Terminal(returns[i].p)
    /\ source[calls[j].c] = returns[i].p

\* the caller's public Resolve/Reject call on p that goroutine t is in
InCall(t, p) == ~Idle(t) /\ stack[t][1].fn \in {"Resolve", "Reject"} /\ stack[t][1].p = p
\* ... and has passed the state check of
Passed(t, p) == InCall(t, p) /\ stack[t][1].pc = "ret"
NotPendingError(fn) ==
  IF fn = "Resolve" THEN ErrResolveNotPendingPromise ELSE ErrRejectNotPendingPromise
\* p is as the call that returned returns[i] set it
SettledAs(p, i) ==
  IF returns[i].fn = "Resolve"
  THEN state[p] = StateFulfilled /\ value[p] = returns[i].arg /\ err[p] = NilErr
  ELSE state[p] = StateRejected /\ err[p] = returns[i].arg /\ value[p] = Nil

\* C2: of the public Resolve/Reject calls made, concurrently or not, on a
\* promise created by Pending(), at most one passes the state check and returns
\* nil, every other returns the not-pending error of its method, once all have
\* returned exactly one has returned nil, and the promise has the state and the
\* value/reason that call gave it.
C2_ExactlyOneSettles ==
  \A p \in Pid : origin[p] = "Pending" =>
    /\ Cardinality(ReturnsOf(p, "nil")) + Cardinality({t \in Threads : Passed(t, p)}) <= 1
    /\ \A i \in DOMAIN returns : returns[i].p = p =>
          /\ returns[i].r \in {"nil", NotPendingError(returns[i].fn)}
          /\ returns[i].r = "nil" => SettledAs(p, i)
          /\ returns[i].r # "nil" =>
                ReturnsOf(p, "nil") # {} \/ \E t \in Threads : Passed(t, p)
    /\ (\E i \in DOMAIN returns : returns[i].p = p) /\ (\A t \in Threads : ~InCall(t, p))
          => Cardinality(ReturnsOf(p, "nil")) = 1

\* two calls on a promise created by Pending() overlapped: one has been refused
\* while the other, which passed the check, has not returned yet; and it returns
C2_Witness ==
  \E p \in Pid, i, j \in DOMAIN returns :
    /\ origin[p] = "Pending"
    /\ returns[i].p = p /\ returns[i].r \in NotPendingErrors
    /\ returns[j].p = p /\ returns[j].r = "nil"
    /\ i < j

\* the closures queued on p
Queued(p) == {handlers[p][k].np : k \in DOMAIN handlers[p]}

\* C3: whatever the interleaving of a registration with a settlement of the same
\* promise, the closure registered is run at most once, and a closure that has
\* run is found in p.handlers only by the notification pass that is running it
\* (which holds p.mutex): the settling side and the registration's own
\* dispatch never both run it.
C3_RunAtMostOnce ==
  \A c \in Pid :
    /\ Cardinality(RunsOf(c)) <= 1
    /\ RunsOf(c) # {} /\ c \in Queued(source[c]) => mutex[source[c]] # NoThread

\* the settling side has run a closure whose registration, on another
\* goroutine, saw the settled state and has made its own notifyObservers call
C3_Witness ==
  \E j \in DOMAIN calls, t \in Threads :
    /\ calls[j].via \in {"Resolve", "Reject", "notifyObservers"}
    /\ Running(t, "registerHandlers")
    /\ Top(t).np = calls[j].c
    /\ Top(t).pc = "ret"

\* the closures appended to a p.handlers so far
Registered == {registered[i].c : i \in DOMAIN registered}

Unsettled == {StatePending, StateSettling, Torn}
Early(p) == {i \in DOMAIN registered : registered[i].p = p /\ registered[i].state \in Unsettled}
\* no goroutine is inside a call
AtRest == \A t \in Threads : Idle(t)

\* C5: the continuations registered on a promise while it is Pending or
\* Settling are run only once it is Fulfilled or Rejected, each at most once and
\* in the order they were registered; once the promise is settled and every
\* call has returned, each has run exactly once.
C5_RegistrationOrder ==
  \A p \in Pid :
    /\ \A i \in Early(p) :
          /\ Cardinality(RunsOf(registered[i].c)) <= 1
          /\ \A k \in RunsOf(registered[i].c) : calls[k].state \in {StateFulfilled, StateRejected}
          /\ Terminal(p) /\ AtRest => Cardinality(RunsOf(registered[i].c)) = 1
    /\ \A i, j \in Early(p) : i < j =>
          \A l \in RunsOf(registered[j].c) : \E k \in RunsOf(registered[i].c) : k < l

\* p.state when the closure that captured c was appended to p.handlers
StateAtAppend(c) == {registered[i].state : i \in {i \in DOMAIN registered : registered[i].c = c}}
\* goroutine t returns from a registerHandlers call that found p settled
LateReturn(t) ==
  /\ Running(t, "registerHandlers")
  /\ Top(t).pc = "ret"
  /\ StateAtAppend(Top(t).np) \subseteq {StateFulfilled, StateRejected}
  /\ stack' = Pop(t)
\* whether the closure of a handler calls it, and with what
Applicable(kind, st) ==
  \/ kind = "then" /\ st = StateFulfilled
  \/ kind = "catch" /\ st = StateRejected
  \/ kind = "finally"
RanWithFinal(k, p) ==
  /\ calls[k].state = state[p]
  /\ calls[k].called = Applicable(calls[k].kind, state[p])
  /\ calls[k].called /\ calls[k].kind = "then" => calls[k].arg = value[p]
  /\ calls[k].called /\ calls[k].kind = "catch" => calls[k].arg = err[p]

\* C6: when a Then/Catch/Finally call on a promise that was already Fulfilled
\* or Rejected returns, its closure has run exactly once, calling the handler
\* if it applies with the promise's final value or reason, and p.handlers and
\* p.operations are empty.
C6_LateRegistration ==
  [][\A t \in Threads : LateReturn(t) =>
        /\ Cardinality(RunsOf(Top(t).np)) = 1
        /\ \A k \in RunsOf(Top(t).np) : RanWithFinal(k, Top(t).p)
        /\ handlers'[Top(t).p] = <<>>
        /\ operations'[Top(t).p] = <<>>]_vars

\* ... the same without the last two conjuncts
C6_RanOnce ==
  [][\A t \in Threads : LateReturn(t) =>
        /\ Cardinality(RunsOf(Top(t).np)) = 1
        /\ \A k \in RunsOf(Top(t).np) : RanWithFinal(k, Top(t).p)]_vars

\* goroutine t, in p.Resolve or p.Reject (fn), takes the lock and makes the
\* state check of the call while p is Settling, Fulfilled or Rejected
Refused(t, fn) ==
  /\ Running(t, fn)
  /\ Top(t).pc = "lock"
  /\ state[Top(t).p] \in {StateSettling, StateFulfilled, StateRejected}
  /\ stack'[t] # stack[t]
\* the call returns e (to the caller, if the caller made it) and nothing else happens
ReturnsError(t, e) ==
  /\ stack' = Pop(t)
  /\ returns' = IF Len(stack[t]) = 1
                THEN Append(returns, Return(Top(t).fn, Top(t).p, Top(t).arg, e))
                ELSE returns
  /\ UNCHANGED <<promiseVars, mutex, calls>>

\* C7: Resolve on a promise that is Settling, Fulfilled or Rejected returns
\* ErrResolveNotPendingPromise, Reject returns ErrRejectNotPendingPromise, and
\* the call changes no state, value, reason, handlers or operations of any
\* promise and runs no closure.
C7_NotPendingRefused ==
  [][\A t \in Threads :
        /\ Refused(t, "Resolve") => ReturnsError(t, ErrResolveNotPendingPromise)
        /\ Refused(t, "Reject")  => ReturnsError(t, ErrRejectNotPendingPromise)]_vars

\* a caller's Resolve has been refused on a promise still Settling and a
\* caller's Reject on a promise that is Fulfilled
C7_Witness ==
  \E i, j \in DOMAIN returns :
    /\ returns[i].fn = "Resolve" /\ returns[i].r = ErrResolveNotPendingPromise
    /\ state[returns[i].p] = StateSettling
    /\ returns[j].fn = "Reject" /\ returns[j].r = ErrRejectNotPendingPromise
    /\ state[returns[j].p] = StateFulfilled

\* the task callback run by goroutine t calls its resolver or its rejector
TaskCalls(t) ==
  /\ Running(t, "NewPromise")
  /\ Top(t).pc = "callback"
  /\ stack'[t] # <<>>
  /\ stack'[t][1].fn = "NewPromise"
  /\ stack'[t][1].left = Top(t).left - 1
\* p is settled as the callback's call number n settles it
SettledByCall(p, n) ==
  \/ state[p] = StateFulfilled /\ value[p] = IntV(n) /\ err[p] = NilErr
  \/ state[p] = StateRejected /\ err[p] = n /\ value[p] = Nil

\* C8: of the calls a task callback makes to its resolver and rejector, the
\* first settles the promise with its value or reason; every later call, of
\* either, changes nothing, and the promise stays as the first call left it.
C8_FirstCallWins ==
  [][\A t \in Threads : TaskCalls(t) =>
        IF Top(t).left = MaxScript
        THEN SettledByCall(Top(t).p, 1)'
        ELSE SettledByCall(Top(t).p, 1) /\ UNCHANGED promiseVars]_vars

\* the callback has made all its calls, the first of them to the resolver
C8_Witness ==
  \E t \in Threads :
    /\ Running(t, "NewPromise")
    /\ Top(t).pc = "callback"
    /\ Top(t).left = 0
    /\ state[Top(t).p] = StateFulfilled

\* the callback of the task-backed promise p is running and has called neither
\* its resolver nor its rejector
Uncalled(p) ==
  \E t \in Threads :
    /\ Running(t, "NewPromise")
    /\ Top(t).p = p
    /\ Top(t).pc = "callback"
    /\ Top(t).left = MaxScript
\* ... and returns: NewPromise's goroutine goes on with lines 260-272
CallbackReturns(t, p) ==
  /\ Uncalled(p)
  /\ Running(t, "NewPromise")
  /\ Top(t).p = p
  /\ stack'[t] # stack[t]
  /\ ~TaskCalls(t)
\* NewPromise's goroutine is at line 263, and leaves it
Writing(t, p) ==
  /\ Running(t, "NewPromise")
  /\ Top(t).p = p
  /\ Top(t).pc = "writing"
Degrades(t, p) == Writing(t, p) /\ stack'[t] # stack[t]
\* goroutine t, in a caller's p.Resolve or p.Reject, makes the state check
\* while p is Pending
Accepted(t, p) ==
  /\ InCall(t, p)
  /\ Len(stack[t]) = 1
  /\ Top(t).pc = "lock"
  /\ state[p] = StatePending
  /\ stack'[t] # stack[t]
\* the step settles p as the call of frame f asks
SettlesAsAsked(p, f) ==
  IF f.fn = "Resolve"
  THEN state'[p] = StateFulfilled /\ value'[p] = f.arg /\ err'[p] = NilErr
  ELSE state'[p] = StateRejected /\ err'[p] = f.arg /\ value'[p] = Nil
\* the caller's call on p that passed the state check returns
SettlerReturns(t, p) ==
  /\ Passed(t, p)
  /\ Len(stack[t]) = 1
  /\ stack'[t] = <<>>

ReturnedSettled == {k \in DOMAIN calls : calls[k].inner \in {StateFulfilled, StateRejected}}
SameOutcome(d, q) == state[d] = state[q] /\ value[d] = value[q] /\ err[d] = err[q]

\* C10: when a FulfillHandler returns a promise that is already Fulfilled or
\* Rejected, the derived promise, once settled, is Fulfilled with that
\* promise's value or Rejected with its reason, it is settled once every call
\* has returned, and no promise's value is ever a promise.
C10_AdoptsSettledInner ==
  /\ \A p \in Pid : value[p].k # "promise"
  /\ \A k \in ReturnedSettled :
        /\ Terminal(calls[k].c) => SameOutcome(calls[k].c, calls[k].res.n)
        /\ AtRest => Terminal(calls[k].c)

\* the runs of a FulfillHandler that returned a promise still Pending or Settling
ReturnedUnsettled == {k \in DOMAIN calls : calls[k].inner \in {StatePending, StateSettling}}
\* the runs of the closures registered on d
RunsOn(d) == {j \in DOMAIN calls : source[calls[j].c] = d}

\* C11: when a FulfillHandler returns a promise that is still Pending or
\* Settling, the derived promise is not settled, and no closure registered on it
\* runs, before that promise is settled; once settled the derived promise has
\* that promise's state, value and reason, and it is settled once that promise
\* is and every call has returned.
C11_AdoptsUnsettledInner ==
  \A k \in ReturnedUnsettled :
    /\ Terminal(calls[k].c) =>
          Terminal(calls[k].res.n) /\ SameOutcome(calls[k].c, calls[k].res.n)
    /\ RunsOn(calls[k].c) # {} => Terminal(calls[k].res.n)
    /\ AtRest /\ Terminal(calls[k].res.n) => Terminal(calls[k].c)

\* when the closure that captured c was appended (0: not yet)
AppendedAt(c) ==
  IF c \in Registered THEN CHOOSE i \in DOMAIN registered : registered[i].c = c ELSE 0
\* a notification pass is in the handlers loop of p
InHandlersLoop(p) ==
  \E f \in Frames : f.fn = "notifyObservers" /\ f.p = p /\ f.pc \in {"lock", "handlers", "called"}
\* the registerHandlers call that made c has not returned
Registering(c) == \E f \in Frames : f.fn = "registerHandlers" /\ f.np = c

RunsAfter(kind, st) ==
  {k \in DOMAIN calls : calls[k].kind = kind /\ state[source[calls[k].c]] = st}
RejectedAs(d, p) == state[d] = StateRejected /\ err[d] = err[p] /\ value[d] = Nil
FulfilledWith(d, v) == state[d] = StateFulfilled /\ value[d] = v /\ err[d] = NilErr

\* C13: when the source of a Then is Rejected, its FulfillHandler has not been
\* called, the derived promise, once settled, is Rejected with the source's
\* reason, and it is settled once every call has returned; so a Catch on the
\* derived promise is called with the reason of the source.
C13_RejectionPassesThen ==
  \A k \in RunsAfter("then", StateRejected) :
    LET d == calls[k].c
        p == source[d]
    IN  /\ ~calls[k].called
        /\ Terminal(d) => RejectedAs(d, p)
        /\ AtRest => Terminal(d)
        /\ \A j \in RunsOn(d) : calls[j].kind = "catch" /\ calls[j].called => calls[j].arg = err[p]

\* C14: when the source of a Catch is Rejected, its RejectHandler has been
\* called, once, with the source's reason; the derived promise, once settled,
\* is Fulfilled with nil, and it is settled once every call has returned; a
\* Catch on the derived promise is not called and a Then on it is called with nil.
C14_CatchRecovers ==
  \A k \in RunsAfter("catch", StateRejected) :
    LET d == calls[k].c
        p == source[d]
    IN  /\ calls[k].called /\ calls[k].arg = err[p]
        /\ Cardinality(RunsOf(d)) = 1
        /\ Terminal(d) => FulfilledWith(d, Nil)
        /\ AtRest => Terminal(d)
        /\ \A j \in RunsOn(d) :
              /\ calls[j].kind = "catch" => ~calls[j].called
              /\ calls[j].kind = "then" => calls[j].called /\ calls[j].arg = Nil

\* C15: when the source of a Catch is Fulfilled, its RejectHandler has not
\* been called, the derived promise, once settled, is Fulfilled with the
\* source's value, and it is settled once every call has returned.
C15_CatchPassesValue ==
  \A k \in RunsAfter("catch", StateFulfilled) :
    LET d == calls[k].c
        p == source[d]
    IN  /\ ~calls[k].called
        /\ Terminal(d) => FulfilledWith(d, value[p])
        /\ AtRest => Terminal(d)

\* C16: the FinallyHandler of a settled source has been called exactly once;
\* the promise derived by Finally, once settled, has the state, value and
\* reason of its source, and it is settled once every call has returned.
C16_FinallyKeepsOutcome ==
  \A k \in RunsAfter("finally", StateFulfilled) \cup RunsAfter("finally", StateRejected) :
    LET d == calls[k].c
        p == source[d]
    IN  /\ calls[k].called
        /\ Cardinality(RunsOf(d)) = 1
        /\ Terminal(d) => SameOutcome(d, p)
        /\ AtRest => Terminal(d)

\* the runs of a FulfillHandler that returned a non-nil error
ReturnedError == {k \in DOMAIN calls : calls[k].kind = "then" /\ calls[k].called /\ calls[k].err # NilErr}

\* C17: when a FulfillHandler returns a non-nil error, with a nil result or
\* not, the derived promise, once settled, is Rejected with that error, it is
\* settled once every call has returned, and a Catch on the derived promise is
\* called with that error.
C17_ThenErrorRejects ==
  \A k \in ReturnedError :
    LET d == calls[k].c IN
    /\ Terminal(d) => state[d] = StateRejected /\ err[d] = calls[k].err /\ value[d] = Nil
    /\ AtRest => Terminal(d)
    /\ \A j \in RunsOn(d) : calls[j].kind = "catch" => calls[j].called /\ calls[j].arg = calls[k].err

\* C18: when the source of a Then is Fulfilled with v, its FulfillHandler has
\* been called, once, with v (so have all the FulfillHandlers of the source);
\* if it returned a plain result r and a nil error the derived promise, once
\* settled, is Fulfilled with r, and it is settled once every call has returned.
C18_ThenMapsValue ==
  \A k \in RunsAfter("then", StateFulfilled) :
    LET d == calls[k].c
        p == source[d]
    IN  /\ calls[k].called /\ calls[k].arg = value[p]
        /\ Cardinality(RunsOf(d)) = 1
        /\ calls[k].err = NilErr /\ calls[k].res.k # "promise" =>
              /\ Terminal(d) => FulfilledWith(d, calls[k].res)
              /\ AtRest => Terminal(d)

\* goroutine t runs the closure that captured c
RunsClosure(t, c) ==
  /\ Len(calls') = Len(calls) + 1
  /\ calls'[Len(calls')].c = c
  /\ stack'[t] # stack[t]
\* goroutine t is a caller inside the registerHandlers call that made c
CallerRegistering(t, c) ==
  /\ stack[t][1].fn = "registerHandlers"
  /\ stack[t][1].np = c

\* C19: the closure of a Then/Catch/Finally call made on a promise already
\* Fulfilled or Rejected is not run by the caller's goroutine inside that call.
C19_LateHandlerNotInCaller ==
  [][\A t \in Threads, c \in Registered :
        RunsClosure(t, c) /\ StateAtAppend(c) \subseteq {StateFulfilled, StateRejected}
          => ~CallerRegistering(t, c)]_vars

\* goroutine t is inside a handler that the pass over p is running
InHandler(t, p) ==
  /\ Len(stack[t]) >= 2
  /\ stack[t][Len(stack[t]) - 1].fn = "notifyObservers"
  /\ stack[t][Len(stack[t]) - 1].pc = "handlers"
  /\ stack[t][Len(stack[t]) - 1].p = p
\* goroutine t waits for a mutex that it holds itself
SelfBlocked(t) ==
  /\ ~Idle(t)
  /\ Top(t).fn \in {"registerHandlers", "Resolve", "Reject"}
  /\ Top(t).pc \in {"append", "lock"}
  /\ mutex[Top(t).p] = t

\* C20: a handler that, while the pass over p runs it, registers a
\* continuation on p or settles another promise never waits for a lock that
\* its own goroutine holds.
C20_HandlerNeverBlocked ==
  \A t \in Threads, p \in Pid : InHandler(t, p) => ~SelfBlocked(t)

\* the registerHandlers calls goroutine t is inside, on a promise that is
\* Pending or Settling now (a promise never leaves Fulfilled or Rejected: it
\* was so when the call began)
EarlyCalls(t) ==
  {i \in DOMAIN stack[t] : stack[t][i].fn = "registerHandlers" /\ state[stack[t][i].p] \in Unsettled}
\* goroutine t takes a step of registerHandlers itself
RegisterStep(t) ==
  /\ Running(t, "registerHandlers")
  /\ stack'[t] # stack[t]
\* handlers' is handlers with one closure for c appended to p's
AppendedOne(p, c) ==
  /\ Len(handlers'[p]) = Len(handlers[p]) + 1
  /\ SubSeq(handlers'[p], 1, Len(handlers[p])) = handlers[p]
  /\ handlers'[p][Len(handlers'[p])].np = c
  /\ \A q \in Pid \ {p} : handlers'[q] = handlers[q]

\* C21: a Then/Catch/Finally call on a promise that is Pending or Settling
\* appends one closure to p.handlers, runs no closure of p, returns a promise
\* other than p and leaves p.state, p.value and p.err as they are.
C21_EarlyRegistrationOnlyAppends ==
  [][\A t \in Threads :
       /\ \A i \in EarlyCalls(t), c \in Pid :
            RunsClosure(t, c) => source[c] # stack[t][i].p
       /\ RegisterStep(t) /\ Top(t).p \in {q \in Pid : state[q] \in Unsettled} =>
            /\ Top(t).np # Top(t).p
            /\ state'[Top(t).p] = state[Top(t).p]
            /\ value'[Top(t).p] = value[Top(t).p]
            /\ err'[Top(t).p] = err[Top(t).p]
            /\ IF Top(t).pc = "append" THEN AppendedOne(Top(t).p, Top(t).np)
                                      ELSE handlers' = handlers]_vars

\* the error a refused call of fn returns
RefusalOf(fn) == IF fn = "Resolve" THEN ErrResolveNotPendingPromise ELSE ErrRejectNotPendingPromise

\* C22: a caller's Resolve or Reject returns nil only on a promise made by
\* Pending() or NewPromise; on a promise returned by Then/Catch/Finally it
\* returns the not-pending error.
C22_DerivedRefusesCallers ==
  \A i \in DOMAIN returns :
    /\ returns[i].r = "nil" => origin[returns[i].p] \in {"Pending", "NewPromise"}
    /\ origin[returns[i].p] = "derived" => returns[i].r = RefusalOf(returns[i].fn)

\* the closures registered on p other than c
Siblings(p, c) == {registered[i].c : i \in {i \in DOMAIN registered : registered[i].p = p}} \ {c}
\* the closures of p run one after the other as they were appended
RunInOrder(p) ==
  \A i, j \in RunsOn(p) :
    AppendedAt(calls[i].c) < AppendedAt(calls[j].c) => i < j
\* the closures registered on the source of a FulfillHandler that returned an
\* error run all the same, once each and in the order of their registration
SiblingsRun ==
  \A k \in ReturnedError :
    LET p == source[calls[k].c] IN
    /\ RunInOrder(p)
    /\ \A c \in Siblings(p, calls[k].c) :
         /\ Cardinality(RunsOf(c)) <= 1
         /\ AtRest /\ Terminal(p) => Cardinality(RunsOf(c)) = 1

\* C23: when a FulfillHandler returns an error, the other closures registered
\* on the same promise still run once each, in the order of their
\* registration; the promise derived for the failing handler is Rejected with
\* the error, and the promise derived for a FulfillHandler that returned no
\* error is not Rejected.
C23_DispatchIsolated ==
  /\ SiblingsRun
  /\ \A k \in ReturnedError :
       /\ Terminal(calls[k].c) =>
            state[calls[k].c] = StateRejected /\ err[calls[k].c] = calls[k].err
       /\ \A j \in RunsOn(source[calls[k].c]) :
            calls[j].kind = "then" /\ calls[j].called /\ calls[j].err = NilErr
              => state[calls[j].c] # StateRejected

\* C24: a promise that is Pending or Settling has a nil value and a nil
\* reason, a Fulfilled promise has a nil reason, a Rejected promise has a nil
\* value.
C24_ValueReasonByState ==
  \A p \in Pid :
    /\ state[p] \in {StatePending, StateSettling} => value[p] = Nil /\ err[p] = NilErr
    /\ state[p] = StateFulfilled => err[p] = NilErr
    /\ state[p] = StateRejected => value[p] = Nil
C24_Witness ==
  \E p, q, r \in Pid :
    /\ state[p] = StateFulfilled /\ value[p] # Nil
    /\ state[q] = StateRejected /\ err[q] # NilErr /\ origin[q] = "derived"
    /\ state[r] = StatePending

\* p.state as the last finished write left it: a promise whose write of
\* StatePending is under way is still Settling
Written(p) == IF state[p] = Torn THEN StateSettling ELSE state[p]
Transitions ==
  {<<StateSettling, StatePending>>, <<StateSettling, StateFulfilled>>, <<StateSettling, StateRejected>>,
   <<StatePending, StateFulfilled>>, <<StatePending, StateRejected>>}

\* C25: a promise is made Settling, Pending, Fulfilled or Rejected, and from
\* then on its state only goes from Settling to Pending, Fulfilled or Rejected
\* and from Pending to Fulfilled or Rejected.
C25_StateTransitions ==
  [][\A p \in Pid :
       Written(p)' # Written(p) =>
         IF Allocated(p)
         THEN <<Written(p), Written(p)'>> \in Transitions
         ELSE Written(p)' \in {StateSettling, StatePending, StateFulfilled, StateRejected}]_vars
C25_Witness ==
  \E d \in Pid :
    /\ origin[d] = "derived"
    /\ Terminal(d)
    /\ origin[source[d]] = "NewPromise"
    /\ Terminal(source[d])

\* a constructor makes p in this step
Made(p) == ~Allocated(p) /\ Allocated(p)'
\* NewPromise's goroutine for p has not taken a step yet
NotStarted(p) == \E t \in Threads : stack[t] = <<TaskFrame(p)>>
\* the fields of p
Fields(p) == [state |-> state[p], value |-> value[p], err |-> err[p],
              handlers |-> handlers[p], operations |-> operations[p]]
Fresh(st, v, e) == [state |-> st, value |-> v, err |-> e, handlers |-> <<>>, operations |-> <<>>]

\* C26: Resolve(v) makes a promise Fulfilled with v and a nil reason,
\* Reject(e) one Rejected with e and a nil value, Pending() one Pending with
\* nil value and reason, NewPromise one Settling with nil value and reason,
\* which it is as long as its goroutine has not run; p.handlers and
\* p.operations are empty.
C26_Constructors ==
  [][\A p \in Pid :
       /\ Made(p) /\ origin'[p] = "Resolve"    => Fields(p)' = Fresh(StateFulfilled, IntV(p), NilErr)
       /\ Made(p) /\ origin'[p] = "Reject"     => Fields(p)' = Fresh(StateRejected, Nil, p)
       /\ Made(p) /\ origin'[p] = "Pending"    => Fields(p)' = Fresh(StatePending, Nil, NilErr)
       /\ Made(p) /\ origin'[p] = "NewPromise" => Fields(p)' = Fresh(StateSettling, Nil, NilErr)
       /\ NotStarted(p)' =>
            state'[p] = StateSettling /\ value'[p] = Nil /\ err'[p] = NilErr]_vars
C26_Witness ==
  \E p, q \in Pid :
    /\ origin[p] \in {"Resolve", "Reject", "Pending"}
    /\ origin[q] = "NewPromise"
    /\ NotStarted(q)
    /\ handlers[q] # <<>>

\* the promises returned by registerHandlers
Derived == {d \in Pid : origin[d] \in {"derived", "internal"} /\ Allocated(d)}
\* an operation begins to settle d in this step
LeavesSettling(d) == state[d] = StateSettling /\ state'[d] # StateSettling
\* the closures registered on the source of d up to the one that captured d
UpTo(d) == {c \in Registered : source[c] = source[d] /\ AppendedAt(c) <= AppendedAt(d)}

\* C27: when an operation begins to settle a promise derived from p, every
\* closure of p.handlers has run, in the order of registration; and a closure
\* registered on a derived promise d runs only after d's operation has begun
\* and the closures registered on p up to d's have run.
C27_HandlersBeforeOperations ==
  [][\A d \in Derived :
       /\ LeavesSettling(d) =>
            /\ \A c \in Queued(source[d]) : RunsOf(c) # {}
            /\ RunInOrder(source[d])
       /\ \A t \in Threads, c \in Registered :
            RunsClosure(t, c) /\ source[c] = d =>
              /\ state[d] # StateSettling
              /\ \A b \in UpTo(d) : RunsOf(b) # {}]_vars
C27_Witness ==
  \E p \in Pid, d \in Derived :
    /\ source[d] = p
    /\ Cardinality(RunsOn(p)) = 2
    /\ Len(handlers[p]) = 2
    /\ Len(operations[p]) = 2
    /\ state[d] = StatePending

\* the closures registered on d while it was not yet Fulfilled or Rejected
EarlyOn(d) == {registered[i].c : i \in Early(d)}
\* the promises derived from the source of d by registrations before d's
Before(d) == {b \in Derived \cap Registered : source[b] = source[d] /\ AppendedAt(b) < AppendedAt(d)}

\* C28: when an operation begins to settle a derived promise d, each promise
\* derived from the same source by an earlier registration is Fulfilled or
\* Rejected, and the closures registered on it until then have run.
C28_DepthFirst ==
  [][\A d \in Derived :
       LeavesSettling(d) =>
         \A b \in Before(d) :
           /\ Terminal(b)
           /\ \A c \in EarlyOn(b) : RunsOf(c) # {}]_vars

\* C29: of two derived promises that adopted two promises not yet settled,
\* the one whose adopted promise is settled first is settled first: a derived
\* promise is not Fulfilled or Rejected, and no closure registered on it has
\* run, while its adopted promise is unsettled and the other adopted promise
\* is settled with its derived promise still unsettled.
C29_SettleInInnerOrder ==
  \A i, j \in ReturnedUnsettled :
    LET d1 == calls[i].c
        q1 == calls[i].res.n
        d2 == calls[j].c
        q2 == calls[j].res.n
    IN  q1 # q2 /\ Terminal(q1) /\ ~Terminal(q2) /\ ~Terminal(d1)
          => ~Terminal(d2) /\ RunsOn(d2) = {}

\* the callback NewPromise was given for p has not returned yet
InCallback(p) == \E f \in Frames : f.fn = "NewPromise" /\ f.pc = "callback" /\ f.p = p

\* C30: a closure registered on a promise made by NewPromise while it was
\* Settling, before the callback called resolve or reject, is run only after
\* the callback has returned.
C30_AfterCallbackReturns ==
  [][\A t \in Threads, c \in Registered :
       /\ RunsClosure(t, c)
       /\ origin[source[c]] = "NewPromise"
       /\ StateAtAppend(c) = {StateSettling}
       => ~InCallback(source[c])]_vars

\* the derived promise c waits for a promise its FulfillHandler returned
Waiting(c) == \E k \in ReturnedUnsettled : calls[k].c = c /\ ~Terminal(calls[k].res.n)
\* the closures registered on p before it was settled, and on the promises
\* derived by them, and so on; not below a promise that waits
RECURSIVE Below(_)
Below(p) ==
  UNION {{c} \cup (IF Waiting(c) THEN {} ELSE Below(c)) : c \in EarlyOn(p)}

\* C31: when a caller's Resolve or Reject that settled p returns, every
\* closure registered on p before, and every closure registered on the
\* promises derived from p that wait for no unsettled promise, has run, and
\* its derived promise is Fulfilled or Rejected.
C31_SettlerNotifiesAll ==
  [][\A t \in Threads, p \in Pid :
       SettlerReturns(t, p) =>
         \A c \in Below(p) :
           /\ RunsOf(c) # {}
           /\ Waiting(c) \/ Terminal(c)]_vars

\* C32: a closure calls the handler a caller passed only when p.state is
\* Fulfilled or Rejected: a FulfillHandler only when it is Fulfilled, a
\* RejectHandler only when it is Rejected.
C32_HandlerMatchesOutcome ==
  \A k \in DOMAIN calls :
    calls[k].called /\ origin[calls[k].c] = "derived" =>
      /\ calls[k].state \in {StateFulfilled, StateRejected}
      /\ calls[k].kind = "then" => calls[k].state = StateFulfilled
      /\ calls[k].kind = "catch" => calls[k].state = StateRejected

\* C33: a promise returned by Then/Catch/Finally is Settling until the pass
\* over its source comes to it: when it is Pending, Fulfilled or Rejected,
\* its source is Fulfilled or Rejected and the closure that captured it has
\* run.
C33_DerivedSettlingUntilPass ==
  \A d \in Derived :
    state[d] \in {StatePending, StateFulfilled, StateRejected} =>
      /\ Terminal(source[d])
      /\ RunsOf(d) # {}

\* a resolver or rejector is called from outside the callback in this step
LateCall == budget'.leaks # budget.leaks
\* a caller's Resolve or Reject is at the state check of p
AtCheck(p) == \E t \in Threads : ~Idle(t) /\ Top(t).fn \in {"Resolve", "Reject"} /\ Top(t).pc = "lock" /\ Top(t).p = p

\* C34: a resolver or rejector called while the promise made by NewPromise is
\* Pending, its callback having returned without calling either, changes
\* nothing and runs no closure; the promise leaves Pending only in a Resolve
\* or Reject call.
C34_LateResolverIgnored ==
  [][\A p \in Pid : origin[p] = "NewPromise" /\ state[p] = StatePending =>
       /\ LateCall => /\ state'[p] = state[p] /\ value'[p] = value[p] /\ err'[p] = err[p]
                      /\ handlers'[p] = handlers[p] /\ operations'[p] = operations[p]
                      /\ UNCHANGED <<calls, stack>>
       /\ state'[p] # state[p] => AtCheck(p)]_vars
C34_Witness ==
  \E p \in Pid :
    /\ origin[p] = "NewPromise"
    /\ state[p] = StatePending
    /\ budget.leaks < MaxLeaks
    /\ handlers[p] # <<>>

\* goroutine t is at a Lock or RLock of the promise of its innermost call
AtLock(t) ==
  /\ ~Idle(t)
  /\ \/ Top(t).fn \in {"Resolve", "Reject", "notifyObservers"} /\ Top(t).pc = "lock"
     \/ Top(t).fn = "registerHandlers" /\ Top(t).pc \in {"append", "check"}
\* the goroutines of S wait for mutexes held by goroutines of S
Deadlocked(S) == \A t \in S : AtLock(t) /\ mutex[Top(t).p] \in S

\* C35: no set of goroutines inside Resolve/Reject/Then/Catch/Finally calls
\* wait for one another's locks for ever, a FulfillHandler returning its own
\* source or another promise included: no goroutine waits for a mutex held by
\* a goroutine that waits in turn, itself included.
C35_NoDeadlock ==
  \A S \in SUBSET Threads : S # {} => ~Deadlocked(S)

====
